---- MODULE Spec2Model ----
(***************************************************************************)
(* Model of poetry's installation Executor                                 *)
(* (src/poetry/installation/executor.py).                                  *)
(*                                                                         *)
(* The main thread runs Executor.execute: it groups the batch with         *)
(* itertools.groupby, cuts every group into chunks of five, prints one     *)
(* line per operation of the chunk, submits the chunk to a thread pool     *)
(* and joins the futures in submission order.  Every pool worker runs      *)
(* Executor._execute_operation on one operation.  An operation is named    *)
(* by its position in the batch (the code names it by id()).               *)
(***************************************************************************)
EXTENDS Integers, Sequences, FiniteSets, TLC

(* ------------------------------ bounds -------------------------------- *)
\* longest batch of the scheduling specification
MaxOps == 3
\* priorities are drawn from 0..MaxPrio
MaxPrio == 1
\* the pool has 1..MaxWorkers threads
MaxWorkers == 2
\* the chunking specification hands execute up to ChunkSize + MaxExtra
\* operations
MaxExtra == 1
\* longest batch of the counting specification
MaxCountOps == 3
\* longest batch of the dry-run specification
MaxDryOps == 2
\* longest batch of the directory specification
MaxDirOps == 2
\* longest batch of the skipping specification
MaxSkipOps == 2
\* longest batch of the cursor specification
MaxCursorOps == 2
\* the window of its console has 0..MaxRoom free lines below the cursor
MaxRoom == 2
\* longest batch of the console specification
MaxConsoleOps == 2

(* ------------------------- program constants -------------------------- *)
\* chunked(group, 5)
ChunkSize == 5

VARIABLES
    operations,          \* the batch handed to execute: a sequence of records
    enabled,             \* self._enabled
    dry_run,             \* self._dry_run
    verbose,             \* self._verbose
    max_workers,         \* size of self._executor's pool
    pc,                  \* position of the main thread inside execute
    chunks,              \* chunks execute has still to run (head: current)
    tasks,               \* futures of the current chunk, in submission order
    joined,              \* how many of them t.result() has returned for
    lines,               \* self._lines: operation -> row
    queue,               \* work queue of the pool: submitted, not yet started
    op_pc,               \* position of the worker that runs each operation
    executed_operations, \* self._executed_operations
    reg,                 \* per worker: value loaded by `+= 1`
    io,                  \* per operation: the status lines written for it
    pip,                 \* per operation: what self.run(...) was called with
                         \*   and how it ended
    supports_ansi,       \* self._io.supports_ansi()
    is_debug,            \* self._io.is_debug()
    cache,               \* the file <cache>/artifacts/<name>/<filename>
    fetch,               \* per operation: the locals of _download
    term,                \* the terminal behind self._io: lines and cursor
    lock,                \* self._lock: the operation whose worker holds it
    wr,                  \* per operation: the locals of a _write under way
    retval,              \* what execute handed back to its caller
    setup_py,            \* per operation: setup.py of the package directory
    has_setup            \* per operation: has_setup of _install_directory

\* what execute is given and never changes
config == << operations, enabled, dry_run, verbose, max_workers,
             supports_ansi, is_debug >>
\* the state of the main thread
main == << pc, chunks, tasks, joined, lines >>

\* the reporter lock and the reports under way
console == << lock, wr >>
\* the package directories
directory == << setup_py, has_setup >>

vars == << config, main, queue, op_pc, executed_operations, reg, io, pip,
           cache, fetch, term, console, retval, directory >>

Ops == 1..Len(operations)

(* ------------------------------ helpers ------------------------------- *)
Min(a, b) == IF a < b THEN a ELSE b

\* take(n, iterable): the first n items
take(n, s) == SubSeq(s, 1, Min(n, Len(s)))

\* what take leaves in the iterator
drop(n, s) == SubSeq(s, Min(n, Len(s)) + 1, Len(s))

\* chunked that hands the whole group over as one chunk
chunked_whole(s, n) == IF s = << >> THEN << >> ELSE << s >>

\* chunked(iterable, n): lists of n items until take returns []
RECURSIVE chunked(_, _)
chunked(s, n) ==
    IF take(n, s) = << >> THEN << >>
    ELSE << take(n, s) >> \o chunked(drop(n, s), n)

\* key of itertools.groupby in execute
key(batch, o) == 0 - batch[o].priority

\* length of the run of equal keys that starts at position i
RECURSIVE run_length(_, _)
run_length(batch, i) ==
    IF i < Len(batch) /\ key(batch, i + 1) = key(batch, i)
    THEN 1 + run_length(batch, i + 1)
    ELSE 1

\* itertools.groupby(operations, key): a new group starts whenever the key
\* changes; the input is not sorted first.  Groups hold batch positions.
RECURSIVE groupby(_, _)
groupby(batch, i) ==
    IF i > Len(batch) THEN << >>
    ELSE LET n == run_length(batch, i)
         IN  << [k \in 1..n |-> i + k - 1] >> \o groupby(batch, i + n)

RECURSIVE flatten(_)
flatten(ss) == IF ss = << >> THEN << >> ELSE Head(ss) \o flatten(Tail(ss))

\* for _, group in groups: for chunk in chunked(group, 5)
all_chunks(batch) ==
    LET gs == groupby(batch, 1)
    IN  flatten([g \in 1..Len(gs) |-> chunked(gs[g], ChunkSize)])

\* positions of the worker inside _execute_operation and what it calls
Running ==
    { "dispatch", "remove", "download", "request", "open", "stream", "verify",
      "installing", "run", "success", "load", "store", "write", "directory",
      "builder", "setup", "build_setup", "pip", "finally" }
Finished == { "done", "raised" }

running_count == Cardinality({ o \in Ops : op_pc[o] \in Running })

(* ----------------------------- messages ------------------------------- *)
\* str(e) of a CalledProcessError, as a sequence of words
Messages ==
    { << "package", "not", "installed" >>,
      << "not", "permitted", "installed" >>,
      << "permission", "denied" >> }

\* needle in haystack, for sequences of words
contains(hay, needle) ==
    \E i \in 0..(Len(hay) - Len(needle)) :
        \A k \in 1..Len(needle) : hay[i + k] = needle[k]

\* how a call of self.run(...) ends: pip exits with 0, or with another
\* status and self.run raises a CalledProcessError with these words
Endings ==
    { [returncode |-> 0, message |-> << >>] }
        \cup { [returncode |-> 1, message |-> m] : m \in Messages }

(* ----------------------------- terminal -------------------------------- *)
\* The console behind self._io.  `screen` holds the text of every line from
\* the one the cursor was on when execute began (line 0), `cursor` is the
\* line the cursor is on, always at its first column between two calls, and
\* `floor` is the bottom line of the window: a line feed on it scrolls, and
\* cursor-down stops at it.  The window is taller than the lines of a chunk.
\* `escapes` says whether a control sequence has been sent, and `block` is
\* the line the first line of the running chunk was printed on.
Blank == << >>

\* a console whose window has `room` free lines below the cursor
Terminal(room) ==
    [screen |-> << >>, cursor |-> 0, floor |-> room, escapes |-> FALSE,
     block |-> 0]

\* characters sent to the terminal land on the cursor's line
put(t, text) ==
    LET missing == t.cursor + 1 - Len(t.screen)
        s == IF missing > 0
             THEN t.screen \o [k \in 1..missing |-> Blank]
             ELSE t.screen
    IN  [t EXCEPT !.screen = [s EXCEPT ![t.cursor + 1] = text]]

\* "\n": the cursor goes to the next line; on the bottom line the window
\* scrolls
newline(t) ==
    [t EXCEPT !.cursor = @ + 1,
              !.floor = IF t.cursor = t.floor THEN @ + 1 ELSE @]

\* self._io.write_line(text)
write_line(t, text) == newline(put(t, text))

\* "\x1b[{n}A": cursor up, n >= 1
cursor_up(t, n) ==
    [t EXCEPT !.cursor = IF n > @ THEN 0 ELSE @ - n, !.escapes = TRUE]

\* "\x1b[{n}B": cursor down, n >= 1, not below the bottom line of the window
cursor_down(t, n) ==
    [t EXCEPT !.cursor = Min(@ + n, t.floor), !.escapes = TRUE]

\* "\x1b[2K\r": the cursor's line is erased
erase_line(t) == [put(t, Blank) EXCEPT !.escapes = TRUE]

\* the text of a status line: whose it is and what it says
text_of(o, kind) == << o, kind >>

\* line 109: diff = len(self._lines) - self._lines[id(operation)]
diff(o) == Cardinality(DOMAIN lines) - lines[o]

\* _write, lines 107-117, run from acquire to release with no other console
\* write in between, for an operation that has a row (within one call of
\* execute self._lines is rebuilt only between chunks, when no task runs)
report(t, o, kind) ==
    cursor_down(write_line(erase_line(cursor_up(t, diff(o))),
                           text_of(o, kind)),
                diff(o))

\* lines 86-93: write_line for every operation of the chunk, in turn
RECURSIVE write_lines(_, _)
write_lines(t, chunk) ==
    IF chunk = << >> THEN t
    ELSE write_lines(write_line(t, text_of(Head(chunk), "progress")),
                     Tail(chunk))

\* execute has no return statement: the call evaluates to None
None == [none |-> TRUE, value |-> 0]
\* a number as a returned value
number(n) == [none |-> FALSE, value |-> n]

(* --------------------------- main thread ------------------------------ *)
\* execute, lines 70-80: header lines, then the groupby iterator is built
execute_begin ==
    /\ pc = "begin"
    /\ chunks' = all_chunks(operations)
    /\ pc' = "chunk"
    /\ UNCHANGED << config, tasks, joined, lines, queue, op_pc,
                    executed_operations, reg, io, pip, cache, fetch,
                    term, console, retval, directory >>

\* a row that counts the operation's own line
row_counting_own(chunk, o) == CHOOSE n \in 1..Len(chunk) : chunk[n] = o

\* line 86: self._lines[id(operation)] = len(self._lines), the number of
\* operations of the chunk entered before this one
row(chunk, o) == (CHOOSE n \in 1..Len(chunk) : chunk[n] = o) - 1

\* lines 82-93: next chunk; self._lines is rebuilt and one line is printed
\* for every operation of the chunk.  No chunk left: execute falls off its
\* end, line 105.
execute_chunk ==
    /\ pc = "chunk"
    /\ IF chunks = << >>
       THEN /\ pc' = "returned"
            /\ retval' = None
            /\ UNCHANGED << lines, io, tasks, joined, term >>
       ELSE LET chunk == Head(chunks)
            IN  /\ lines' = [k \in { chunk[n] : n \in 1..Len(chunk) } |->
                                row(chunk, k)]
                /\ io' = [o \in Ops |->
                            IF \E n \in 1..Len(chunk) : chunk[n] = o
                            THEN Append(io[o], "progress") ELSE io[o]]
                /\ term' = write_lines([term EXCEPT !.block = term.cursor],
                                       chunk)
                /\ tasks' = << >>
                /\ joined' = 0
                /\ pc' = "submit"
                /\ UNCHANGED retval
    /\ UNCHANGED << config, chunks, queue, op_pc, executed_operations, reg,
                    pip, cache, fetch, console, directory >>

\* lines 95-99: self._executor.submit(self._execute_operation, operation)
execute_submit ==
    /\ pc = "submit"
    /\ LET chunk == Head(chunks)
       IN  IF Len(tasks) < Len(chunk)
           THEN LET o == chunk[Len(tasks) + 1]
                IN  /\ tasks' = Append(tasks, o)
                    /\ queue' = Append(queue, o)
                    /\ op_pc' = [op_pc EXCEPT ![o] = "queued"]
                    /\ pc' = "submit"
           ELSE /\ pc' = "join"
                /\ UNCHANGED << tasks, queue, op_pc >>
    /\ UNCHANGED << config, chunks, joined, lines, executed_operations, reg,
                    io, pip, cache, fetch,
                    term, console, retval, directory >>

\* a join that does not wait for a task that is still queued or running
result_eager(status) ==
    IF status = "raised" THEN "raise" ELSE "next"

\* a join that drops the exception of a task
result_ignoring(status) ==
    IF status \in { "done", "raised" } THEN "next" ELSE "wait"

\* what t.result() of the next future does to execute: "wait" while the
\* task has not finished, "next" when it returned, "raise" when it raised
result(status) ==
    IF status = "done" THEN "next"
    ELSE IF status = "raised" THEN "raise"
    ELSE "wait"

\* line 102: [t.result() for t in tasks], one future after the other; the
\* first future that raised ends execute.  After the last one, the sleep of
\* line 105 and the next chunk.
execute_join ==
    /\ pc = "join"
    /\ IF joined < Len(tasks)
       THEN LET r == result(op_pc[tasks[joined + 1]])
            IN  /\ r # "wait"
                /\ IF r = "next"
                   THEN /\ joined' = joined + 1
                        /\ pc' = "join"
                   ELSE /\ pc' = "raised"
                        /\ UNCHANGED joined
                /\ UNCHANGED chunks
       ELSE /\ chunks' = Tail(chunks)
            /\ pc' = "chunk"
            /\ UNCHANGED joined
    /\ UNCHANGED << config, tasks, lines, queue, op_pc, executed_operations,
                    reg, io, pip, cache, fetch,
                    term, console, retval, directory >>

(* ----------------------------- workers -------------------------------- *)
\* a free pool thread takes the oldest work item
worker_start ==
    /\ queue # << >>
    /\ running_count < max_workers
    /\ op_pc' = [op_pc EXCEPT ![Head(queue)] = "dispatch"]
    /\ queue' = Tail(queue)
    /\ UNCHANGED << config, main, executed_operations, reg, io, pip, cache,
                    fetch,
                    term, console, retval, directory >>

\* a dispatch that writes the line of a skipped operation and goes on to its
\* handler
execute_operation_unskipped(o) ==
    /\ op_pc[o] = "dispatch"
    /\ operations[o].skipped
    /\ io' = [io EXCEPT ![o] =
                 IF verbose /\ (enabled \/ dry_run)
                 THEN Append(@, "skipped") ELSE @]
    /\ term' = IF verbose /\ (enabled \/ dry_run)
               THEN write_line(term, text_of(o, "skipped")) ELSE term
    /\ op_pc' = [op_pc EXCEPT ![o] = "remove"]
    /\ UNCHANGED << config, main, queue, executed_operations, reg, pip, cache,
                    fetch, console, retval, directory >>

\* _execute_operation, lines 123-131: a skipped operation
execute_operation_skipped(o) ==
    /\ op_pc[o] = "dispatch"
    /\ operations[o].skipped
    /\ io' = [io EXCEPT ![o] =
                 IF verbose /\ (enabled \/ dry_run)
                 THEN Append(@, "skipped") ELSE @]
    /\ term' = IF verbose /\ (enabled \/ dry_run)
               THEN write_line(term, text_of(o, "skipped")) ELSE term
    /\ op_pc' = [op_pc EXCEPT ![o] = "done"]
    /\ UNCHANGED << config, main, queue, executed_operations, reg, pip, cache,
                    fetch,
                    console, retval, directory >>

\* lines 133-140: disabled or dry run
execute_operation_dry(o) ==
    /\ op_pc[o] = "dispatch"
    /\ ~operations[o].skipped
    /\ ~enabled \/ dry_run
    /\ io' = [io EXCEPT ![o] = Append(@, "planned")]
    /\ term' = write_line(term, text_of(o, "planned"))
    /\ op_pc' = [op_pc EXCEPT ![o] = "done"]
    /\ UNCHANGED << config, main, queue, executed_operations, reg, pip, cache,
                    fetch,
                    console, retval, directory >>

\* line 142 and _execute_uninstall, lines 226-230: the "Removing..." line
execute_uninstall(o) ==
    /\ op_pc[o] = "dispatch"
    /\ ~operations[o].skipped
    /\ enabled /\ ~dry_run
    /\ operations[o].job_type = "uninstall"
    /\ lock = 0 /\ o \in DOMAIN lines
    /\ io' = [io EXCEPT ![o] = Append(@, "removing")]
    /\ term' = report(term, o, "removing")
    /\ op_pc' = [op_pc EXCEPT ![o] = "remove"]
    /\ UNCHANGED << config, main, queue, executed_operations, reg, pip, cache,
                    fetch,
                    console, retval, directory >>

\* _remove that looks for the word "installed" alone
remove_outcome_any(ended) ==
    IF ended.returncode = 0 THEN "return"
    ELSE IF contains(ended.message, << "installed" >>) THEN "return"
    ELSE "raise"

\* what _remove makes of the end of self.run("uninstall", ...)
remove_outcome(ended) ==
    IF ended.returncode = 0 THEN "return"
    ELSE IF contains(ended.message, << "not", "installed" >>) THEN "return"
    ELSE "raise"

\* _remove, lines 262-277, for a package that is no git checkout
remove(o, ended) ==
    /\ op_pc[o] = "remove"
    /\ pip' = [pip EXCEPT ![o] =
                  Append(@, [cmd |-> "uninstall", ended |-> ended])]
    /\ op_pc' = [op_pc EXCEPT ![o] =
                    IF remove_outcome(ended) = "return"
                    THEN "success" ELSE "raised"]
    /\ UNCHANGED << config, main, queue, executed_operations, reg, io, cache,
                    fetch,
                    term, console, retval, directory >>

\* lines 144-147: the success line
execute_operation_success(o) ==
    /\ op_pc[o] = "success"
    /\ lock = 0 /\ o \in DOMAIN lines
    /\ io' = [io EXCEPT ![o] = Append(@, "success")]
    /\ term' = report(term, o, "success")
    /\ op_pc' = [op_pc EXCEPT ![o] = "load"]
    /\ UNCHANGED << config, main, queue, executed_operations, reg, pip, cache,
                    fetch,
                    console, retval, directory >>

\* line 149, first half of `self._executed_operations += 1`: the attribute
\* is loaded
counter_load(o) ==
    /\ op_pc[o] = "load"
    /\ reg' = [reg EXCEPT ![o] = executed_operations]
    /\ op_pc' = [op_pc EXCEPT ![o] = "store"]
    /\ UNCHANGED << config, main, queue, executed_operations, io, pip, cache,
                    fetch,
                    term, console, retval, directory >>

\* the value line 149 stores from what it loaded
incremented(loaded) == loaded + 1

\* line 149, second half: the sum is stored; the task returns
counter_store(o) ==
    /\ op_pc[o] = "store"
    /\ executed_operations' = incremented(reg[o])
    /\ reg' = [reg EXCEPT ![o] = 0]
    /\ op_pc' = [op_pc EXCEPT ![o] = "done"]
    /\ UNCHANGED << config, main, queue, io, pip, cache, fetch,
                    term, console, retval, directory >>

(* ------------------------- fetch and install -------------------------- *)
\* package names; the cache holds one file per name (the link the Chooser
\* picks for a package is fixed, so name and filename go together)
Names == { "demo" }

\* bodies a mirror may serve for the link, in chunks of iter_content: the
\* published archive and a different one
Genuine == << 1, 2 >>
Tampered == << 1, 3 >>
Bodies == { Genuine, Tampered }

NoFile == [present |-> FALSE, data |-> << >>]
File(data) == [present |-> TRUE, data |-> data]

\* FileDependency.hash(): a digest of the whole content
RECURSIVE sha256(_)
sha256(data) ==
    IF data = << >> THEN 7
    ELSE (31 * sha256(SubSeq(data, 1, Len(data) - 1)) + data[Len(data)] + 1) % 251

\* line 429: "sha256:" + hash
archive_hash(data) == [algo |-> "sha256", hex |-> sha256(data)]

\* Chef.prepare: the installable form built from a source archive
prepare(data) == << 0 >> \o data

\* f.write(chunk) of a file opened with "wb": the chunk lands at the
\* writer's own offset, whatever the file holds by then
write_at(data, offset, chunk) ==
    IF offset < Len(data) THEN [data EXCEPT ![offset + 1] = chunk]
    ELSE data \o [k \in 1..(offset - Len(data)) |-> 0] \o << chunk >>

\* a lookup that never finds the cache file
exists_never(file) == FALSE

\* archive.exists(), line 388
exists(file) == file.present

NoFetch ==
    [requested |-> FALSE, resp |-> << >>, sized |-> FALSE, offset |-> 0,
     archive |-> "none", built |-> << >>, read |-> << >>]

\* the bytes behind the path _download holds in `archive`
content(o) ==
    IF fetch[o].archive = "built" THEN fetch[o].built
    ELSE cache[operations[o].package].data

\* line 142, _execute_install/_execute_update and _install, lines 234-246,
\* for a registry package: on to _download
execute_install(o) ==
    /\ op_pc[o] = "dispatch"
    /\ ~operations[o].skipped
    /\ enabled /\ ~dry_run
    /\ operations[o].job_type \in { "install", "update" }
    /\ operations[o].source_type = "registry"
    /\ op_pc' = [op_pc EXCEPT ![o] = "download"]
    /\ UNCHANGED << config, main, queue, executed_operations, reg, io, pip,
                    cache, fetch,
                    term, console, retval, directory >>

\* _download, lines 380-388: the cache file is there, or a request is due
download_lookup(o) ==
    /\ op_pc[o] = "download"
    /\ IF exists(cache[operations[o].package])
       THEN /\ fetch' = [fetch EXCEPT ![o].archive = "raw"]
            /\ op_pc' = [op_pc EXCEPT ![o] = "verify"]
       ELSE /\ op_pc' = [op_pc EXCEPT ![o] = "request"]
            /\ UNCHANGED fetch
    /\ UNCHANGED << config, main, queue, executed_operations, reg, io, pip,
                    cache,
                    term, console, retval, directory >>

\* lines 389-404: session.get raises, or answers with a body (with or
\* without a content-length) and the "Downloading..." line is written
download_request(o) ==
    /\ op_pc[o] = "request"
    /\ \/ /\ op_pc' = [op_pc EXCEPT ![o] = "raised"]
          /\ fetch' = [fetch EXCEPT ![o].requested = TRUE]
          /\ UNCHANGED << io, term >>
       \/ \E body \in Bodies, sized \in BOOLEAN :
            /\ fetch' = [fetch EXCEPT ![o].requested = TRUE,
                                      ![o].resp = body,
                                      ![o].sized = sized]
            /\ io' = [io EXCEPT ![o] =
                         IF ~supports_ansi \/ is_debug
                         THEN Append(@, "downloading")
                         ELSE IF sized THEN Append(@, "percent") ELSE @]
            /\ supports_ansi /\ ~is_debug /\ sized
                    => lock = 0 /\ o \in DOMAIN lines
            /\ term' = IF ~supports_ansi \/ is_debug
                       THEN write_line(term, text_of(o, "downloading"))
                       ELSE IF sized THEN report(term, o, "percent") ELSE term
            /\ op_pc' = [op_pc EXCEPT ![o] = "open"]
    /\ UNCHANGED << config, main, queue, executed_operations, reg, pip,
                    cache,
                    console, retval, directory >>

\* line 407: archive.open("wb") creates the file, or empties it
download_open(o) ==
    /\ op_pc[o] = "open"
    /\ cache' = [cache EXCEPT ![operations[o].package] = File(<< >>)]
    /\ fetch' = [fetch EXCEPT ![o].offset = 0]
    /\ op_pc' = [op_pc EXCEPT ![o] = "stream"]
    /\ UNCHANGED << config, main, queue, executed_operations, reg, io, pip,
                    term, console, retval, directory >>

\* lines 408-426: one turn of the loop over response.iter_content.  The
\* body is exhausted: the file is closed and a source archive goes through
\* the Chef.  Or the connection breaks: the exception leaves the file with
\* what was written.  Or a chunk arrives, is reported and written.
download_chunk(o) ==
    /\ op_pc[o] = "stream"
    /\ LET name == operations[o].package
       IN  IF fetch[o].resp = << >>
           THEN /\ fetch' = [fetch EXCEPT
                                ![o].archive =
                                    IF operations[o].is_wheel THEN "raw" ELSE "built",
                                ![o].built =
                                    IF operations[o].is_wheel THEN << >>
                                    ELSE prepare(cache[name].data)]
                /\ op_pc' = [op_pc EXCEPT ![o] = "verify"]
                /\ UNCHANGED << io, term, cache >>
           ELSE \/ /\ op_pc' = [op_pc EXCEPT ![o] = "raised"]
                   /\ UNCHANGED << io, term, cache, fetch >>
                \/ /\ io' = [io EXCEPT ![o] =
                                IF (supports_ansi \/ is_debug) /\ fetch[o].sized
                                THEN Append(@, "percent") ELSE @]
                   /\ (supports_ansi \/ is_debug) /\ fetch[o].sized
                           => lock = 0 /\ o \in DOMAIN lines
                   /\ term' = IF (supports_ansi \/ is_debug) /\ fetch[o].sized
                              THEN report(term, o, "percent") ELSE term
                   /\ cache' = [cache EXCEPT ![name] =
                                   File(write_at(@.data, fetch[o].offset,
                                                 Head(fetch[o].resp)))]
                   /\ fetch' = [fetch EXCEPT ![o].offset = @ + 1,
                                             ![o].resp = Tail(@)]
                   /\ UNCHANGED op_pc
    /\ UNCHANGED << config, main, queue, executed_operations, reg, pip,
                    console, retval, directory >>

\* _download without the comparison of hashes
verified_always(files, data) == TRUE

\* lines 428-433: does _download accept an archive with this content for a
\* package with these expected files
verified(files, data) ==
    files = { } \/ archive_hash(data) \in files

\* lines 428-435: the archive is hashed when the package lists files; a hash
\* that is not listed raises RuntimeError, else the path is returned
download_verify(o) ==
    /\ op_pc[o] = "verify"
    /\ fetch' = [fetch EXCEPT ![o].read =
                    IF operations[o].files = { } THEN @
                    ELSE Append(@, content(o))]
    /\ op_pc' = [op_pc EXCEPT ![o] =
                    IF verified(operations[o].files, content(o))
                    THEN "installing" ELSE "raised"]
    /\ UNCHANGED << config, main, queue, executed_operations, reg, io, pip,
                    cache,
                    term, console, retval, directory >>

\* _install, lines 247-251: the "Installing..." line
install_write(o) ==
    /\ op_pc[o] = "installing"
    /\ lock = 0 /\ o \in DOMAIN lines
    /\ io' = [io EXCEPT ![o] = Append(@, "installing")]
    /\ term' = report(term, o, "installing")
    /\ op_pc' = [op_pc EXCEPT ![o] = "run"]
    /\ UNCHANGED << config, main, queue, executed_operations, reg, pip, cache,
                    fetch,
                    console, retval, directory >>

\* lines 253-257: pip install --no-deps [-U] <archive>; pip reads the archive
install_run(o, ended) ==
    /\ op_pc[o] = "run"
    /\ pip' = [pip EXCEPT ![o] =
                  Append(@, [cmd |-> IF operations[o].job_type = "update"
                                     THEN "install -U" ELSE "install",
                             ended |-> ended])]
    /\ fetch' = [fetch EXCEPT ![o].read = Append(@, content(o))]
    /\ op_pc' = [op_pc EXCEPT ![o] =
                    IF ended.returncode = 0 THEN "success" ELSE "raised"]
    /\ UNCHANGED << config, main, queue, executed_operations, reg, io, cache,
                    term, console, retval, directory >>

(* ------------------------ directory installs -------------------------- *)
\* the setup.py a project ships, and the one SdistBuilder.build_setup makes
OwnScript == << 1 >>
Synthesized == << 2 >>

\* lines 302 and 309-311: the test for a build-system table is commented out
has_build_system == FALSE

\* line 315: is a setup.py to be written for this package
needs_setup(o, there) ==
    ~there /\ operations[o].has_poetry
        /\ (operations[o].develop \/ ~has_build_system)

\* line 142, _execute_install/_execute_update, _install, lines 234-238, and
\* _install_directory, lines 279-315: the "Installing" line is written,
\* pyproject.toml is read and setup.py is looked for
install_directory(o) ==
    /\ op_pc[o] = "dispatch"
    /\ ~operations[o].skipped
    /\ enabled /\ ~dry_run
    /\ operations[o].job_type \in { "install", "update" }
    /\ operations[o].source_type = "directory"
    /\ io' = [io EXCEPT ![o] = Append(@, "installing")]
    /\ term' = write_line(term, text_of(o, "installing"))
    /\ has_setup' = [has_setup EXCEPT ![o] = exists(setup_py[o])]
    /\ op_pc' = [op_pc EXCEPT ![o] =
                    IF needs_setup(o, exists(setup_py[o]))
                    THEN "builder" ELSE "pip"]
    /\ UNCHANGED << config, main, queue, executed_operations, reg, pip, cache,
                    fetch, console, retval, setup_py >>

\* lines 320-322: the project is loaded and the builder made, or
\* Factory().create_poetry raises
install_directory_builder(o) ==
    /\ op_pc[o] = "builder"
    /\ \/ op_pc' = [op_pc EXCEPT ![o] = "setup"]
       \/ op_pc' = [op_pc EXCEPT ![o] = "raised"]
    /\ UNCHANGED << config, main, queue, executed_operations, reg, io, pip,
                    cache, fetch, term, console, retval, directory >>

\* line 324: open(setup, "w") creates the file, or raises
install_directory_open(o) ==
    /\ op_pc[o] = "setup"
    /\ \/ /\ setup_py' = [setup_py EXCEPT ![o] = File(<< >>)]
          /\ op_pc' = [op_pc EXCEPT ![o] = "build_setup"]
       \/ /\ op_pc' = [op_pc EXCEPT ![o] = "raised"]
          /\ UNCHANGED setup_py
    /\ UNCHANGED << config, main, queue, executed_operations, reg, io, pip,
                    cache, fetch, term, console, retval, has_setup >>

\* line 325: f.write(decode(builder.build_setup())) inside the with block:
\* the script is written, or build_setup or the write raises and the with
\* block closes the file
install_directory_write(o) ==
    /\ op_pc[o] = "build_setup"
    /\ \/ /\ setup_py' = [setup_py EXCEPT ![o] = File(Synthesized)]
          /\ op_pc' = [op_pc EXCEPT ![o] = "pip"]
       \/ /\ op_pc' = [op_pc EXCEPT ![o] = "raised"]
          /\ UNCHANGED setup_py
    /\ UNCHANGED << config, main, queue, executed_operations, reg, io, pip,
                    cache, fetch, term, console, retval, has_setup >>

\* lines 327-332: pip install --no-deps -U [-e] <directory>
install_directory_run(o, ended) ==
    /\ op_pc[o] = "pip"
    /\ pip' = [pip EXCEPT ![o] =
                  Append(@, [cmd |-> IF operations[o].develop
                                     THEN "install -U -e" ELSE "install -U",
                             ended |-> ended])]
    /\ op_pc' = [op_pc EXCEPT ![o] = "finally"]
    /\ UNCHANGED << config, main, queue, executed_operations, reg, io, cache,
                    fetch, term, console, retval, directory >>

\* lines 333-335: the finally clause removes a setup.py that was not there
\* at line 314; then the result of self.run is returned or its exception
\* goes on
install_directory_finally(o) ==
    /\ op_pc[o] = "finally"
    /\ setup_py' = [setup_py EXCEPT ![o] =
                       IF ~has_setup[o] /\ exists(@) THEN NoFile ELSE @]
    /\ op_pc' = [op_pc EXCEPT ![o] =
                    IF pip[o][Len(pip[o])].ended.returncode = 0
                    THEN "success" ELSE "raised"]
    /\ UNCHANGED << config, main, queue, executed_operations, reg, io, pip,
                    cache, fetch, term, console, retval, has_setup >>

(* ------------------ _write, one console write at a time --------------- *)
\* no _write under way
NoWrite == [phase |-> "idle", kind |-> "", diff |-> 0, after |-> ""]

\* a worker calls _write: _execute_uninstall, line 228, with the
\* "Removing..." line, or _execute_operation, lines 144-147, with the
\* success line
write_call(o) ==
    /\ \/ /\ op_pc[o] = "dispatch"
          /\ ~operations[o].skipped
          /\ enabled /\ ~dry_run
          /\ operations[o].job_type = "uninstall"
          /\ wr' = [wr EXCEPT ![o] = [phase |-> "acquire", kind |-> "removing",
                                      diff |-> 0, after |-> "remove"]]
       \/ /\ op_pc[o] = "success"
          /\ wr' = [wr EXCEPT ![o] = [phase |-> "acquire", kind |-> "success",
                                      diff |-> 0, after |-> "load"]]
    /\ op_pc' = [op_pc EXCEPT ![o] = "write"]
    /\ UNCHANGED << config, main, queue, executed_operations, reg, io, pip,
                    cache, fetch, term, lock, retval, directory >>

\* lines 108-109: self._lock.acquire() returns once the lock is free; the
\* row is looked up, and the lookup of an operation that has no row raises
\* KeyError
write_acquire(o) ==
    /\ op_pc[o] = "write"
    /\ wr[o].phase = "acquire"
    /\ lock = 0
    /\ lock' = o
    /\ IF o \in DOMAIN lines
       THEN /\ wr' = [wr EXCEPT ![o].phase = "up", ![o].diff = diff(o)]
            /\ UNCHANGED op_pc
       ELSE /\ wr' = [wr EXCEPT ![o] = NoWrite]
            /\ op_pc' = [op_pc EXCEPT ![o] = "raised"]
    /\ UNCHANGED << config, main, queue, executed_operations, reg, io,
                    pip, cache, fetch, term, retval, directory >>

\* line 111: the cursor goes up
write_up(o) ==
    /\ op_pc[o] = "write"
    /\ wr[o].phase = "up"
    /\ term' = cursor_up(term, wr[o].diff)
    /\ wr' = [wr EXCEPT ![o].phase = "text"]
    /\ UNCHANGED << config, main, queue, op_pc, executed_operations, reg, io,
                    pip, cache, fetch, lock, retval, directory >>

\* lines 112-113: the line is erased and written
write_text(o) ==
    /\ op_pc[o] = "write"
    /\ wr[o].phase = "text"
    /\ term' = write_line(erase_line(term), text_of(o, wr[o].kind))
    /\ io' = [io EXCEPT ![o] = Append(@, wr[o].kind)]
    /\ wr' = [wr EXCEPT ![o].phase = "down"]
    /\ UNCHANGED << config, main, queue, op_pc, executed_operations, reg, pip,
                    cache, fetch, lock, retval, directory >>

\* lines 115-117: the cursor goes down and the lock is released; _write
\* returns
write_release(o) ==
    /\ op_pc[o] = "write"
    /\ wr[o].phase = "down"
    /\ term' = cursor_down(term, wr[o].diff)
    /\ lock' = 0
    /\ op_pc' = [op_pc EXCEPT ![o] = wr[o].after]
    /\ wr' = [wr EXCEPT ![o] = NoWrite]
    /\ UNCHANGED << config, main, queue, executed_operations, reg, io, pip,
                    cache, fetch, retval, directory >>

\* lines 111-115: self._io.write or write_line raises (the stream is closed,
\* the pipe is broken): the exception leaves _write and ends the task
write_raises(o) ==
    /\ op_pc[o] = "write"
    /\ wr[o].phase \in { "up", "text", "down" }
    /\ op_pc' = [op_pc EXCEPT ![o] = "raised"]
    /\ wr' = [wr EXCEPT ![o] = NoWrite]
    /\ UNCHANGED << config, main, queue, executed_operations, reg, io, pip,
                    cache, fetch, term, lock, retval, directory >>

(* -------------------------- specifications ---------------------------- *)
\* Executor.__init__ and the entry of execute, for a given batch and given
\* setup.py files in the directories of its packages
Begin(batch, scripts) ==
    /\ operations = batch
    /\ pc = "begin"
    /\ chunks = << >>
    /\ tasks = << >>
    /\ joined = 0
    /\ lines = << >>
    /\ queue = << >>
    /\ op_pc = [o \in 1..Len(batch) |-> "new"]
    /\ executed_operations = 0
    /\ reg = [o \in 1..Len(batch) |-> 0]
    /\ io = [o \in 1..Len(batch) |-> << >>]
    /\ pip = [o \in 1..Len(batch) |-> << >>]
    /\ fetch = [o \in 1..Len(batch) |-> NoFetch]
    /\ lock = 0
    /\ wr = [o \in 1..Len(batch) |-> NoWrite]
    /\ retval = None
    /\ setup_py = scripts
    /\ has_setup = [o \in 1..Len(batch) |-> FALSE]

\* the same for packages that ship no setup.py
Start(batch) == Begin(batch, [o \in 1..Len(batch) |-> NoFile])

\* an ANSI console with the cursor on the bottom line of its window, not in
\* debug mode, and an empty cache
PlainSetting ==
    /\ supports_ansi = TRUE
    /\ is_debug = FALSE
    /\ term = Terminal(0)
    /\ cache = [n \in Names |-> NoFile]

\* all batches of 1..n operations drawn from a catalogue
Batches(catalogue, n) ==
    UNION { [1..k -> catalogue] : k \in 1..n }

\* operations on the registry package "demo"
Operations(job_types, priorities, skips, file_sets, wheels) ==
    [ job_type : job_types, priority : priorities, skipped : skips,
      package : Names, files : file_sets, is_wheel : wheels,
      source_type : { "registry" } ]

Uninstalls(priorities, skips) ==
    Operations({ "uninstall" }, priorities, skips, { { } }, { TRUE })

\* pip ends well, or fails for a reason of its own
Plain == { e \in Endings : ~contains(e.message, << "installed" >>) }

\* the main thread
Scheduler ==
    \/ execute_begin
    \/ execute_chunk
    \/ execute_submit
    \/ execute_join
    \/ worker_start

\* the end of _execute_operation when the handler returned
Completion ==
    \/ \E o \in Ops : execute_operation_success(o)
    \/ \E o \in Ops : counter_load(o)
    \/ \E o \in Ops : counter_store(o)

\* Spec: an enabled executor runs a batch of removals of any priorities
Init ==
    /\ enabled = TRUE
    /\ dry_run = FALSE
    /\ verbose = FALSE
    /\ max_workers \in 1..MaxWorkers
    /\ PlainSetting
    /\ \E batch \in Batches(Uninstalls(0..MaxPrio, { FALSE }), MaxOps) :
            Start(batch)

Next ==
    \/ Scheduler
    \/ \E o \in Ops : execute_uninstall(o)
    \/ \E o \in Ops : \E ended \in Endings : remove(o, ended)
    \/ Completion

Spec == Init /\ [][Next]_vars

\* SpecChunk: a batch longer than a chunk: removals of priority 0, the last
\* one of any priority
LongBatch(n, p) ==
    [k \in 1..n |->
        [job_type |-> "uninstall", priority |-> IF k = n THEN p ELSE 0,
         skipped |-> FALSE, package |-> "demo", files |-> { },
         is_wheel |-> TRUE, source_type |-> "registry"]]

InitChunk ==
    /\ enabled = TRUE
    /\ dry_run = FALSE
    /\ verbose = FALSE
    /\ max_workers \in 1..MaxWorkers
    /\ PlainSetting
    /\ \E n \in (ChunkSize + 1)..(ChunkSize + MaxExtra), p \in 0..MaxPrio :
            Start(LongBatch(n, p))

NextChunk ==
    \/ Scheduler
    \/ \E o \in Ops : execute_uninstall(o)
    \/ \E o \in Ops : \E ended \in Plain : remove(o, ended)
    \/ Completion

SpecChunk == InitChunk /\ [][NextChunk]_vars

\* SpecCount: an enabled executor runs removals, some of them skipped
InitCount ==
    /\ enabled = TRUE
    /\ dry_run = FALSE
    /\ verbose \in BOOLEAN
    /\ max_workers \in 1..MaxWorkers
    /\ PlainSetting
    /\ \E batch \in Batches(Uninstalls({ 0 }, BOOLEAN), MaxCountOps) :
            Start(batch)

NextCount ==
    \/ Scheduler
    \/ \E o \in Ops : execute_operation_skipped(o)
    \/ \E o \in Ops : execute_uninstall(o)
    \/ \E o \in Ops : \E ended \in Plain : remove(o, ended)
    \/ Completion

SpecCount == InitCount /\ [][NextCount]_vars

\* SpecDry: a disabled executor, or one in dry run, is given any operations
InitDry ==
    /\ \E mode \in { << FALSE, FALSE >>, << FALSE, TRUE >>, << TRUE, TRUE >> } :
            enabled = mode[1] /\ dry_run = mode[2]
    /\ verbose \in BOOLEAN
    /\ max_workers \in 1..MaxWorkers
    /\ PlainSetting
    /\ \E batch \in Batches(Operations({ "install", "update", "uninstall" },
                                       { 0 }, BOOLEAN, { { } }, { TRUE }),
                            MaxDryOps) :
            Start(batch)

NextDry ==
    \/ Scheduler
    \/ \E o \in Ops : execute_operation_skipped(o)
    \/ \E o \in Ops : execute_operation_dry(o)

SpecDry == InitDry /\ [][NextDry]_vars

\* SpecFetch: an enabled executor is given two installs of the same package
\* in one chunk, on a console with or without ANSI; the cache file is
\* absent, left behind by an interrupted download of an earlier run, or
\* complete
InitFetch ==
    /\ enabled = TRUE
    /\ dry_run = FALSE
    /\ verbose = FALSE
    /\ max_workers \in 1..MaxWorkers
    /\ supports_ansi \in BOOLEAN
    /\ is_debug = FALSE
    /\ term = Terminal(0)
    /\ cache \in [Names -> { NoFile, File(<< 1 >>), File(Genuine) }]
    /\ \E files \in { { }, { archive_hash(Genuine) } }, wheel \in BOOLEAN,
          second \in { "install", "update" } :
            Start([k \in 1..2 |->
                    [job_type |-> IF k = 1 THEN "install" ELSE second,
                     priority |-> 0, skipped |-> FALSE, package |-> "demo",
                     files |-> files, is_wheel |-> wheel,
                     source_type |-> "registry"]])

NextFetch ==
    \/ Scheduler
    \/ \E o \in Ops : execute_install(o)
    \/ \E o \in Ops : download_lookup(o)
    \/ \E o \in Ops : download_request(o)
    \/ \E o \in Ops : download_open(o)
    \/ \E o \in Ops : download_chunk(o)
    \/ \E o \in Ops : download_verify(o)
    \/ \E o \in Ops : install_write(o)
    \/ \E o \in Ops : \E ended \in Plain : install_run(o, ended)
    \/ Completion

SpecFetch == InitFetch /\ [][NextFetch]_vars

\* SpecDir: an enabled executor installs packages from directories, each with
\* a directory of its own that ships a setup.py or does not
DirectoryInstalls ==
    [ job_type : { "install" }, priority : { 0 }, skipped : { FALSE },
      package : Names, files : { { } }, is_wheel : { FALSE },
      source_type : { "directory" }, develop : BOOLEAN,
      has_poetry : BOOLEAN ]

InitDir ==
    /\ enabled = TRUE
    /\ dry_run = FALSE
    /\ verbose = FALSE
    /\ max_workers \in 1..MaxWorkers
    /\ PlainSetting
    /\ \E batch \in Batches(DirectoryInstalls, MaxDirOps) :
         \E scripts \in [1..Len(batch) -> { NoFile, File(OwnScript) }] :
            Begin(batch, scripts)

NextDir ==
    \/ Scheduler
    \/ \E o \in Ops : install_directory(o)
    \/ \E o \in Ops : install_directory_builder(o)
    \/ \E o \in Ops : install_directory_open(o)
    \/ \E o \in Ops : install_directory_write(o)
    \/ \E o \in Ops : \E ended \in Plain : install_directory_run(o, ended)
    \/ \E o \in Ops : install_directory_finally(o)
    \/ Completion

SpecDir == InitDir /\ [][NextDir]_vars

\* SpecSkip: an executor in any mode is given removals of two priorities,
\* some of them skipped
InitSkip ==
    /\ enabled \in BOOLEAN
    /\ dry_run \in BOOLEAN
    /\ verbose \in BOOLEAN
    /\ max_workers \in 1..MaxWorkers
    /\ PlainSetting
    /\ \E batch \in Batches(Uninstalls({ 0, 1 }, BOOLEAN), MaxSkipOps) :
            Start(batch)

NextSkip ==
    \/ Scheduler
    \/ \E o \in Ops : execute_operation_skipped(o)
    \/ \E o \in Ops : execute_operation_dry(o)
    \/ \E o \in Ops : execute_uninstall(o)
    \/ \E o \in Ops : \E ended \in Plain : remove(o, ended)
    \/ Completion

SpecSkip == InitSkip /\ [][NextSkip]_vars

\* SpecCursor: an enabled executor runs removals on an ANSI console whose
\* cursor is on the bottom line of the window (the window has been filled
\* and scrolls) or has free lines below it (the window was cleared)
InitCursor ==
    /\ enabled = TRUE
    /\ dry_run = FALSE
    /\ verbose = FALSE
    /\ max_workers \in 1..MaxWorkers
    /\ supports_ansi = TRUE
    /\ is_debug = FALSE
    /\ cache = [n \in Names |-> NoFile]
    /\ \E room \in 0..MaxRoom : term = Terminal(room)
    /\ \E batch \in Batches(Uninstalls({ 0 }, { FALSE }), MaxCursorOps) :
            Start(batch)

NextCursor ==
    \/ Scheduler
    \/ \E o \in Ops : execute_uninstall(o)
    \/ \E o \in Ops : \E ended \in Plain : remove(o, ended)
    \/ Completion

SpecCursor == InitCursor /\ [][NextCursor]_vars

\* SpecConsole: an enabled executor runs removals, some of them skipped;
\* _write is taken one console write at a time, and a console write may
\* raise
InitConsole ==
    /\ enabled = TRUE
    /\ dry_run = FALSE
    /\ verbose \in BOOLEAN
    /\ max_workers \in 1..MaxWorkers
    /\ PlainSetting
    /\ \E batch \in Batches(Uninstalls({ 0 }, BOOLEAN), MaxConsoleOps) :
            Start(batch)

NextConsole ==
    \/ Scheduler
    \/ \E o \in Ops : execute_operation_skipped(o)
    \/ \E o \in Ops : write_call(o)
    \/ \E o \in Ops : write_acquire(o)
    \/ \E o \in Ops : write_up(o)
    \/ \E o \in Ops : write_text(o)
    \/ \E o \in Ops : write_release(o)
    \/ \E o \in Ops : write_raises(o)
    \/ \E o \in Ops : \E ended \in Plain : remove(o, ended)
    \/ \E o \in Ops : counter_load(o)
    \/ \E o \in Ops : counter_store(o)

SpecConsole == InitConsole /\ [][NextConsole]_vars

\* SpecFallback: an enabled executor installs one wheel on a console with or
\* without ANSI, in debug mode or not
InitFallback ==
    /\ enabled = TRUE
    /\ dry_run = FALSE
    /\ verbose = FALSE
    /\ max_workers \in 1..MaxWorkers
    /\ supports_ansi \in BOOLEAN
    /\ is_debug \in BOOLEAN
    /\ term = Terminal(0)
    /\ cache = [n \in Names |-> NoFile]
    /\ \E op \in Operations({ "install", "update" }, { 0 }, { FALSE },
                            { { } }, { TRUE }) :
            Start(<< op >>)

NextFallback ==
    \/ Scheduler
    \/ \E o \in Ops : execute_install(o)
    \/ \E o \in Ops : download_lookup(o)
    \/ \E o \in Ops : download_request(o)
    \/ \E o \in Ops : download_open(o)
    \/ \E o \in Ops : download_chunk(o)
    \/ \E o \in Ops : download_verify(o)
    \/ \E o \in Ops : install_write(o)
    \/ \E o \in Ops : \E ended \in Plain : install_run(o, ended)
    \/ Completion

SpecFallback == InitFallback /\ [][NextFallback]_vars

(* ------------------------------ claims -------------------------------- *)
\* the operation has begun executing on a worker
begun(o) == op_pc[o] \in Running \cup Finished

\* the operation has returned or raised
completed(o) == op_pc[o] \in Finished

\* submitted to the pool and not yet completed
in_flight == { o \in Ops : op_pc[o] \in { "queued" } \cup Running }

\* the position, among the groups (or chunks) execute iterates over, of the
\* one that holds the operation
index_of(parts, o) ==
    CHOOSE g \in 1..Len(parts) : \E k \in 1..Len(parts[g]) : parts[g][k] = o
group_of(o) == index_of(groupby(operations, 1), o)
chunk_of(o) == index_of(all_chunks(operations), o)

\* _download has returned a path for the operation
fetched(o) ==
    op_pc[o] \in { "installing", "run", "success", "load", "store", "done" }
        \/ pip[o] # << >>

written(o, line) == \E k \in 1..Len(io[o]) : io[o][k] = line

\* the batch lists its operations by descending priority
sorted ==
    \A i \in Ops, j \in Ops :
        i < j => operations[i].priority >= operations[j].priority

\* C1, as stated: whatever the order of the batch, an operation of higher
\* priority has completed before any operation of lower priority begins on a
\* worker.
PriorityOrdering ==
    \A a \in Ops, b \in Ops :
        operations[a].priority > operations[b].priority /\ begun(b)
            => completed(a)

\* C1, amended: for a batch listed by descending priority, an operation of
\* higher priority has completed before any operation of lower priority
\* begins on a worker.
PriorityOrderingSorted == sorted => PriorityOrdering

PriorityOrderingSortedWitness ==
    /\ sorted
    /\ max_workers > 1
    /\ \E a \in Ops, b \in Ops :
            /\ operations[a].priority > operations[b].priority
            /\ op_pc[a] = "done"
            /\ op_pc[b] \in Running

\* C2: once execute has returned, the executed counter equals the number of
\* non-skipped operations whose dispatch returned: no increment is lost.
ExecutedCounter ==
    pc = "returned" =>
        executed_operations =
            Cardinality({ o \in Ops : ~operations[o].skipped /\ op_pc[o] = "done" })

\* C3: at most 5 operations are submitted and not yet completed, and they
\* all belong to the same priority group.
ChunkBound ==
    /\ Cardinality(in_flight) <= 5
    /\ \A a \in in_flight, b \in in_flight :
            /\ group_of(a) = group_of(b)
            /\ operations[a].priority = operations[b].priority

ChunkBoundWitness ==
    /\ Cardinality(in_flight) = 5
    /\ \E o \in Ops : op_pc[o] = "new" /\ \A a \in in_flight : group_of(a) = group_of(o)

\* C4: once the dispatch of an operation has raised, no operation of a later
\* chunk or group is ever submitted or started and execute does not return
\* normally; when execute raises, every operation of the failing chunk has
\* been submitted and none is withdrawn.
FailureStopsBatch ==
    /\ \A a \in Ops, b \in Ops :
            op_pc[a] = "raised" /\ chunk_of(b) > chunk_of(a) => op_pc[b] = "new"
    /\ (\E a \in Ops : op_pc[a] = "raised") => pc # "returned"
    /\ pc = "raised" =>
            /\ tasks = Head(chunks)
            /\ \A k \in 1..Len(tasks) : op_pc[tasks[k]] # "new"

FailureStopsBatchWitness ==
    /\ pc = "raised"
    /\ \E a \in Ops, s \in Ops, b \in Ops :
            /\ op_pc[a] = "raised"
            /\ s # a /\ chunk_of(s) = chunk_of(a) /\ op_pc[s] \in Running
            /\ chunk_of(b) > chunk_of(a) /\ op_pc[b] = "new"

\* C5: execute leaves a chunk, to the next chunk, by returning or by
\* raising, only after every operation submitted for it has completed.
ChunkBarrier ==
    /\ pc = "raised" => \A k \in 1..Len(tasks) : completed(tasks[k])
    /\ pc \in { "chunk", "returned" } =>
            \A o \in Ops : op_pc[o] = "new" \/ completed(o)

\* C6: disabled or in dry run, execute invokes no installer, downloads and
\* writes nothing to the cache, leaves the executed counter alone, and one
\* status line is written per operation over the whole run.
DryRunOneLine ==
    pc = "returned" =>
        /\ executed_operations = 0
        /\ cache = [n \in Names |-> NoFile]
        /\ \A o \in Ops :
                /\ pip[o] = << >>
                /\ ~fetch[o].requested
                /\ Len(io[o]) = 1

\* C7: a fetch that found the cache file present hashes, and hands to the
\* installer, only a file whose download had fully completed.
CacheCompleteness ==
    \A o \in Ops :
        fetch[o].archive = "raw" /\ ~fetch[o].requested =>
            \A k \in 1..Len(fetch[o].read) : fetch[o].read[k] \in Bodies

\* C8: for a package that lists files, fetch returns only an archive whose
\* "sha256:" hash is listed; on a mismatch the operation raises, the
\* installer is not invoked, no success line is written and the operation is
\* not counted.  For a package that lists none, nothing is hashed: the only
\* reader of the archive is the installer.
HashVerification ==
    /\ \A o \in Ops :
        IF operations[o].files # { }
        THEN /\ fetched(o) =>
                    /\ fetch[o].read # << >>
                    /\ archive_hash(fetch[o].read[1]) \in operations[o].files
             /\ ( /\ fetch[o].read # << >>
                  /\ archive_hash(fetch[o].read[1]) \notin operations[o].files )
                    => /\ op_pc[o] = "raised"
                       /\ pip[o] = << >>
                       /\ ~written(o, "installing")
                       /\ ~written(o, "success")
        ELSE Len(fetch[o].read) = Len(pip[o])
    /\ executed_operations <= Cardinality({ o \in Ops : op_pc[o] = "done" })

HashVerificationWitness ==
    \E o \in Ops, p \in Ops :
        /\ operations[o].files # { }
        /\ fetch[o].read # << >>
        /\ archive_hash(fetch[o].read[1]) \notin operations[o].files
        /\ op_pc[o] = "raised"
        /\ p # o /\ op_pc[p] = "done" /\ fetch[p].read # << >>

\* C9, as stated: two fetches of the same package and filename perform
\* exactly one download between them.
CacheReuse ==
    \A a \in Ops, b \in Ops :
        ( /\ a # b
          /\ operations[a].package = operations[b].package
          /\ fetched(a) /\ fetched(b) )
            => Cardinality({ o \in { a, b } : fetch[o].requested }) = 1

\* C9, amended: a fetch that starts after another fetch of the same package
\* and filename has returned a path issues no request and goes on with the
\* cached path.
CacheReuseSequential ==
    [][ \A o \in Ops :
            ( /\ op_pc[o] = "download"
              /\ op_pc'[o] # "download"
              /\ \E a \in Ops \ { o } :
                    /\ operations[a].package = operations[o].package
                    /\ fetched(a) )
                => /\ op_pc'[o] = "verify"
                   /\ fetch'[o].archive = "raw"
                   /\ ~fetch'[o].requested ]_vars

CacheReuseSequentialWitness ==
    /\ max_workers = 1
    /\ fetch[1].requested /\ fetched(1)
    /\ ~fetch[2].requested /\ fetch[2].archive = "raw" /\ fetched(2)

\* C10: an uninstall whose pip call fails with a message that contains "not
\* installed" goes on as a success: it never raises, writes the success line
\* and performs the increment; with any other message it raises, writes no
\* success line and is not counted.
IdempotentUninstall ==
    /\ \A o \in Ops :
        ( /\ operations[o].job_type = "uninstall"
          /\ pip[o] # << >>
          /\ pip[o][1].ended.returncode # 0 )
            => IF contains(pip[o][1].ended.message, << "not", "installed" >>)
               THEN /\ op_pc[o] \in { "success", "load", "store", "done" }
                    /\ op_pc[o] = "done" =>
                            /\ io[o][Len(io[o])] = "success"
                            /\ executed_operations >= 1
               ELSE /\ op_pc[o] = "raised"
                    /\ ~written(o, "success")
    /\ executed_operations <= Cardinality({ o \in Ops : op_pc[o] = "done" })

IdempotentUninstallWitness ==
    \E o \in Ops, p \in Ops :
        /\ pip[o] # << >>
        /\ contains(pip[o][1].ended.message, << "not", "installed" >>)
        /\ op_pc[o] = "done"
        /\ pip[p] # << >>
        /\ pip[p][1].ended.returncode # 0
        /\ op_pc[p] = "raised"

\* _install_directory has returned or raised for the operation
left_install_directory(o) ==
    op_pc[o] \in { "success", "load", "store", "done", "raised" }

\* C11: once the install of a directory package has returned or raised, a
\* setup.py that was not in the directory before is not there, whichever
\* step failed, and a setup.py that was there before is still the project's
DirectoryCleanup ==
    \A o \in Ops :
        left_install_directory(o) =>
            IF has_setup[o] THEN setup_py[o] = File(OwnScript)
            ELSE ~exists(setup_py[o])

\* the lines a worker wrote for the operation
worker_lines(o) == SelectSeq(io[o], LAMBDA kind : kind # "progress")

ExecuteReturnsCount ==
    pc = "returned" =>
        retval = number(Cardinality({ o \in Ops : ~operations[o].skipped
                                                    /\ op_pc[o] = "done" }))

\* lines 86-93 have just run for the chunk at the head of `chunks`
printed == pc = "submit" /\ tasks = << >>

\* the operations of a chunk that are not skipped, in chunk order
unskipped(chunk) == SelectSeq(chunk, LAMBDA o : ~operations[o].skipped)

\* C17, as claimed: when a chunk has been printed, the console got one
\* progress line for every operation of the chunk that is not skipped, in
\* chunk order, and none for a skipped one; an operation's row is its
\* position among these lines, counted from 1, and only operations of the
\* chunk have a row
RowAllocation ==
    printed =>
        LET shown == unskipped(Head(chunks))
        IN  /\ term.cursor = term.block + Len(shown)
            /\ \A k \in 1..Len(shown) :
                /\ term.screen[term.block + k] = text_of(shown[k], "progress")
                /\ lines[shown[k]] = k
            /\ DOMAIN lines \subseteq { shown[k] : k \in 1..Len(shown) }

\* C17, amended: when a chunk has been printed, the console got one progress
\* line for every operation of the chunk, skipped or not, in chunk order; an
\* operation's row is the number of lines printed for the chunk before its
\* own; and as long as the chunk runs exactly its operations have a row
RowAllocationAll ==
    pc \in { "submit", "join" } =>
        LET chunk == Head(chunks)
        IN  /\ DOMAIN lines = { chunk[k] : k \in 1..Len(chunk) }
            /\ \A k \in 1..Len(chunk) : lines[chunk[k]] = k - 1
            /\ printed =>
                /\ term.cursor = term.block + Len(chunk)
                /\ \A k \in 1..Len(chunk) :
                    term.screen[term.block + lines[chunk[k]] + 1]
                        = text_of(chunk[k], "progress")

\* a chunk of two operations has been printed, the second of them skipped
RowAllocationAllWitness ==
    /\ printed
    /\ Len(Head(chunks)) = 2
    /\ operations[Head(chunks)[2]].skipped

\* C14: a report leaves the cursor on the line it found it on
CursorRestoration ==
    [][\A o \in Ops :
            execute_uninstall(o) \/ execute_operation_success(o)
                => term'.cursor = term.cursor]_vars

\* the line of the console that was allocated to the operation
allocated(o) == term.block + lines[o] + 1

\* C15: while a chunk runs, the line allocated to each of its operations
\* shows the last text written for that operation, and the lines below the
\* block of the chunk are as they were
LineCoherence ==
    pc \in { "submit", "join" } =>
        /\ \A o \in DOMAIN lines :
              term.screen[allocated(o)] = text_of(o, io[o][Len(io[o])])
        /\ \A n \in 1..Len(term.screen) :
              n > term.block + Cardinality(DOMAIN lines)
                  => term.screen[n] = Blank

\* worker o writes to the console in this step
worker_writes(o) ==
    /\ term' # term
    /\ op_pc'[o] # op_pc[o] \/ wr'[o] # wr[o]

AppendOnlyFallback ==
    ~supports_ansi \/ is_debug =>
        /\ ~term.escapes
        /\ \A o \in Ops : \A n \in 1..Len(io[o]) : io[o][n] # "percent"

\* C19: the path _download returns for a link that is no wheel is the one
\* Chef.prepare built, whether the file was downloaded or found in the cache
FetchPathPrepared ==
    \A o \in Ops :
        ~operations[o].is_wheel /\ fetch[o].archive # "none"
            => fetch[o].archive = "built"

\* C20: the reporter lock is held only by a worker that is inside _write
LockReleased ==
    \A o \in Ops : lock = o => op_pc[o] = "write"

====
